---------------------------- MODULE Spec2Model ----------------------------
(***************************************************************************)
(* The sale transaction core of the inventory / point-of-sale application  *)
(* (src/database.py): the products, sales, customers, logs and users       *)
(* tables, and the operations that write them.  Every operation runs on    *)
(* its own SQLite connection and commits (or rolls back) before it         *)
(* returns, so one action is one call.                                     *)
(*                                                                         *)
(* Amounts (REAL columns) are modelled as integers.  Text values that the  *)
(* code strips, splits or joins are sequences of one-character strings.    *)
(***************************************************************************)
EXTENDS Integers, Sequences, FiniteSets, TLC

VARIABLES
    products,   \* products table: id -> [stock, sales_count]
    sales,      \* sales table, row i has id i (AUTOINCREMENT, rows never deleted)
    customers,  \* customers table: mobile -> [name, email, visits, total_spend, segment]
    logs,       \* logs table, in insertion order
    users,      \* users table: username -> [password_hash, role, full_name, status]
    ret,        \* the operation called last and the value it returned
    hist,       \* the products table as it was before the latest sale commit
    seg,        \* the segment labels computed for one spend value by each code path
    session_state, \* st.session_state of each POS session: cart, checkout_stage
    conns       \* per connection: the sale row read by the cancellation in progress, if any

vars == <<products, sales, customers, logs, users, ret, hist, seg, session_state,
          conns>>

\* Python's None where a string is expected; no string of the model equals it
None == <<"None">>

-----------------------------------------------------------------------------
(* Bounds of the model and the inputs the operations are called with *)

NumProducts == 2
MaxStock == 2
MaxCart == 2
MaxSales == 2

ProductIds == 1..NumProducts

\* The catalog the sales run against: product 1 has MaxStock units, every
\* other product has one
InitialStock(p) == IF p = 1 THEN MaxStock ELSE 1

\* cart_items: one entry per unit, repeats allowed
Carts == UNION {[1..n -> ProductIds] : n \in 0..MaxCart}

\* <<total, operator, customer_mobile>> of a checkout.  Mobiles arrive as the
\* caller normalised them (utils.validate_mobile_number), without padding.
Tenders ==
    {<<100, "operator", <<"9">>>>,
     <<20000, "admin", <<"9">>>>,
     <<100, "admin", None>>}

\* <<operator, role, password>> of a cancellation request: the logged-in
\* user and role (main.py passes the session's), with the password typed
Requesters ==
    {<<"admin", "Admin", "admin123">>,
     <<"operator", "Operator", "pos123">>,
     <<"operator", "Operator", "admin123">>}

Mobiles == {<<"9">>}
Reasons == {None, <<" ", "n", "o", " ">>, <<"b", "a", "d">>}
Quantities == {0, 1}
Names == {"Amit"}
Emails == {"amit.s@example.com"}

-----------------------------------------------------------------------------
(* Text helpers *)

RECURSIVE LStrip(_)
LStrip(s) == IF s # <<>> /\ Head(s) = " " THEN LStrip(Tail(s)) ELSE s

RECURSIVE RStrip(_)
RStrip(s) ==
    IF s # <<>> /\ s[Len(s)] = " " THEN RStrip(SubSeq(s, 1, Len(s) - 1)) ELSE s

\* str.strip()
Strip(s) == RStrip(LStrip(s))

\* Python truthiness of an optional string: None and "" are false
Truthy(s) == s # None /\ s # <<>>

DigitChars == <<"0", "1", "2", "3", "4", "5", "6", "7", "8", "9">>

\* str(n) for n >= 0
RECURSIVE Str(_)
Str(n) ==
    IF n < 10 THEN <<DigitChars[n + 1]>>
    ELSE Str(n \div 10) \o <<DigitChars[(n % 10) + 1]>>

DigitValue(c) == CHOOSE d \in 0..9 : DigitChars[d + 1] = c

\* int(x) for a string of digits
RECURSIVE ToInt(_)
ToInt(s) ==
    IF Len(s) = 1 THEN DigitValue(s[1])
    ELSE 10 * ToInt(SubSeq(s, 1, Len(s) - 1)) + DigitValue(s[Len(s)])

\* A join that puts nothing between the parts
RECURSIVE JoinUnseparated(_)
JoinUnseparated(parts) ==
    IF parts = <<>> THEN <<>> ELSE parts[1] \o JoinUnseparated(Tail(parts))

\* ",".join(parts)
RECURSIVE Join(_)
Join(parts) ==
    IF parts = <<>> THEN <<>>
    ELSE IF Len(parts) = 1 THEN parts[1]
    ELSE parts[1] \o <<",">> \o Join(Tail(parts))

\* s.split(',')
RECURSIVE Split(_)
Split(s) ==
    IF \A i \in 1..Len(s) : s[i] # "," THEN <<s>>
    ELSE LET k == CHOOSE i \in 1..Len(s) :
                     s[i] = "," /\ \A j \in 1..(i - 1) : s[j] # ","
         IN <<SubSeq(s, 1, k - 1)>> \o Split(SubSeq(s, k + 1, Len(s)))

\* items_data_str = ",".join([str(i['id']) for i in cart_items])
ItemsData(cart) == Join([i \in 1..Len(cart) |-> Str(cart[i])])

RECURSIVE ParseTokens(_)
ParseTokens(toks) ==
    IF toks = <<>> THEN <<>>
    ELSE IF Strip(Head(toks)) # <<>>
         THEN <<ToInt(Head(toks))>> \o ParseTokens(Tail(toks))
         ELSE ParseTokens(Tail(toks))

\* [int(x) for x in items_data_str.split(',') if x.strip()], guarded by
\* "if items_data_str:"
ParseItems(s) == IF s = <<>> THEN <<>> ELSE ParseTokens(Split(s))

\* hashlib.sha256(p.encode()).hexdigest(): injective on the passwords used
sha256(p) == <<"sha256", p>>

-----------------------------------------------------------------------------
(* Row-level helpers *)

\* One "UPDATE products SET stock = stock + dStock, sales_count = sales_count
\* + dCount WHERE id = pid" for each element of ids, in order; an id that
\* matches no row updates nothing.
RECURSIVE UpdateUnits(_, _, _, _)
UpdateUnits(prods, ids, dStock, dCount) ==
    IF ids = <<>> THEN prods
    ELSE LET pid == Head(ids)
             next == IF pid \in DOMAIN prods
                     THEN [prods EXCEPT ![pid] =
                              [stock |-> @.stock + dStock,
                               sales_count |-> @.sales_count + dCount]]
                     ELSE prods
         IN UpdateUnits(next, Tail(ids), dStock, dCount)

\* A variant that touches each distinct id once, however often it repeats
UpdateDistinct(prods, ids, dStock, dCount) ==
    [p \in DOMAIN prods |->
        IF \E i \in 1..Len(ids) : ids[i] = p
        THEN [stock |-> prods[p].stock + dStock,
              sales_count |-> prods[p].sales_count + dCount]
        ELSE prods[p]]

\* A commit that decrements once per distinct product of the cart
DecrementStockGrouped(prods, cart_items) ==
    UpdateDistinct(prods, cart_items, -1, 1)

\* A cancellation that restores once per distinct product of the sale
RestoreStockGrouped(prods, items_ids) ==
    UpdateDistinct(prods, items_ids, 1, -1)

\* A cancellation that restores the stock and leaves sales_count as it is
RestoreStockKeepsCount(prods, items_ids) == UpdateUnits(prods, items_ids, 1, 0)

\* A status check that lets every sale through
AlreadyCancelledIgnored(sale) == FALSE

\* for item in cart_items: UPDATE products SET stock = stock - 1,
\* sales_count = sales_count + 1 WHERE id = item['id']
DecrementStock(prods, cart_items) == UpdateUnits(prods, cart_items, -1, 1)

\* for pid in items_ids: UPDATE products SET stock = stock + 1,
\* sales_count = sales_count - 1 WHERE id = pid
RestoreStock(prods, items_ids) == UpdateUnits(prods, items_ids, 1, -1)

\* A reason check that measures the reason without trimming it
ReasonRejectedUntrimmed(reason) == ~Truthy(reason) \/ Len(reason) < 3

\* not reason or len(reason.strip()) < 3
ReasonRejected(reason) == ~Truthy(reason) \/ Len(Strip(reason)) < 3

\* A credential check that accepts the password of any user
CredentialMatchesAnyUser(usrs, operator, password) ==
    \E u \in DOMAIN usrs : usrs[u].password_hash = sha256(password)

\* SELECT 1 FROM users WHERE username=? AND password_hash=?
CredentialMatches(usrs, operator, password) ==
    operator \in DOMAIN usrs /\ usrs[operator].password_hash = sha256(password)

\* datetime.now().strftime("%Y-%m-%d %H:%M:%S"): the clock is read as one
\* value, enough to tell a timestamp that was written from one that was not
Now == <<"now">>

\* A cancellation that does not record when it happened
MarkCancelledUndated(sale, reason, operator, cancel_time) ==
    [sale EXCEPT !.status = "Cancelled",
                 !.cancellation_reason = reason,
                 !.cancelled_by = operator]

\* A cancellation that also voids the amount of the sale
MarkCancelledAndVoided(sale, reason, operator, cancel_time) ==
    [sale EXCEPT !.status = "Cancelled",
                 !.total_amount = 0,
                 !.cancellation_reason = reason,
                 !.cancelled_by = operator,
                 !.cancellation_timestamp = cancel_time]

\* UPDATE sales SET status = 'Cancelled', cancellation_reason = ?,
\* cancelled_by = ?, cancellation_timestamp = ? WHERE id = ?
MarkCancelled(sale, reason, operator, cancel_time) ==
    [sale EXCEPT !.status = "Cancelled",
                 !.cancellation_reason = reason,
                 !.cancelled_by = operator,
                 !.cancellation_timestamp = cancel_time]

\* status == 'Cancelled'
AlreadyCancelled(sale) == sale.status = "Cancelled"

\* A cancellation that takes the visit back together with the spend
AdjustSpendAndVisits(custs, cust_mobile, total_amount) ==
    IF Truthy(cust_mobile) /\ cust_mobile \in DOMAIN custs
    THEN [custs EXCEPT ![cust_mobile] =
             [@ EXCEPT !.total_spend = @ - total_amount, !.visits = @ - 1]]
    ELSE custs

\* if cust_mobile: UPDATE customers SET total_spend = total_spend - ?
\* WHERE mobile = cust_mobile; a mobile that matches no row updates nothing
AdjustSpend(custs, cust_mobile, total_amount) ==
    IF Truthy(cust_mobile) /\ cust_mobile \in DOMAIN custs
    THEN [custs EXCEPT ![cust_mobile].total_spend = @ - total_amount]
    ELSE custs

\* The segment label process_sale_transaction computes from the new spend
CommitSegment(new_spend) ==
    IF new_spend > 50000 THEN "High-Value"
    ELSE IF new_spend > 10000 THEN "Regular"
    ELSE "Occasional"

\* The segment label the CSV branch of seed_advanced_demo_data computes
SeedSegment(spend, visits) ==
    IF visits = 0 THEN "New"
    ELSE IF spend > 50000 THEN "High-Value"
    ELSE IF spend > 15000 THEN "Regular"
    ELSE "Occasional"

\* The users init_db inserts
DefaultUsers ==
    [u \in {"admin", "operator"} |->
        IF u = "admin"
        THEN [password_hash |-> sha256("admin123"), role |-> "Admin",
              full_name |-> "System Admin", status |-> "Active"]
        ELSE [password_hash |-> sha256("pos123"), role |-> "Operator",
              full_name |-> "POS Operator", status |-> "Active"]]

NoLabel == "none"
NoSeg == [spend |-> 0, visits |-> 0, commit |-> NoLabel, seed |-> NoLabel]
NoHist == [age |-> 2, pre |-> None]

\* The POS sessions, each a browser session with its own st.session_state
NumSessions == 2
SessionIds == 1..NumSessions

\* st.session_state['cart'] = [] and checkout_stage 'cart' in every session
NoSessions == [s \in SessionIds |-> [cart |-> <<>>, checkout_stage |-> "cart"]]

\* The connections cancellations run on: get_connection() opens one per call
NumConns == 2
ConnIds == 1..NumConns

\* No cancellation in progress on any connection
NoConns == [c \in ConnIds |-> <<>>]

\* hist after an operation other than a sale commit: the snapshot is kept
\* only by a cancellation that succeeds right after the commit
Forget == hist' = NoHist

-----------------------------------------------------------------------------
(* Initial state: the tables after init_db and the setting up of a catalog *)
(* of NumProducts products (add_product), before any sale.                 *)

Init ==
    /\ products = [p \in ProductIds |-> [stock |-> InitialStock(p), sales_count |-> 0]]
    /\ sales = <<>>
    /\ customers = <<>>
    /\ logs = <<>>
    /\ users = DefaultUsers
    /\ ret = [op |-> "init_db", ok |-> TRUE, val |-> None]
    /\ hist = NoHist
    /\ seg = NoSeg
    /\ session_state = NoSessions
    /\ conns = NoConns

-----------------------------------------------------------------------------
(* Operations *)

\* The row of INSERT INTO sales (timestamp, total_amount, items_data, ...,
\* operator, ..., customer_mobile, ...); status and the cancellation columns
\* take their defaults
NewSale(cart_items, total, operator, customer_mobile) ==
    [items_data |-> ItemsData(cart_items),
     total_amount |-> total,
     operator |-> operator,
     customer_mobile |-> customer_mobile,
     timestamp |-> Now,
     status |-> "Completed",
     cancellation_reason |-> None,
     cancelled_by |-> None,
     cancellation_timestamp |-> None]

\* A rollback that leaves the writes of the failed call in the table
RollbackKeepsWrites(committed, working) == working

\* conn.rollback(): the table is as it was committed, whatever the call
\* wrote on its connection since
Rollback(committed, working) == committed

\* The statements at which a sale commit may raise after its stock UPDATEs
FailurePoints == {"insert_sale", "update_customer"}

\* process_sale_transaction when a statement raises: the writes made so far
\* on the connection, then "except: conn.rollback(); raise e"
process_sale_transaction_raises(cart_items, total, operator, customer_mobile, fail_at) ==
    /\ Len(sales) < MaxSales
    /\ LET written_products == DecrementStock(products, cart_items)
           written_sales ==
               IF fail_at = "insert_sale" THEN sales
               ELSE Append(sales,
                           NewSale(cart_items, total, operator, customer_mobile))
       IN /\ products' = Rollback(products, written_products)
          /\ sales' = Rollback(sales, written_sales)
    /\ ret' = [op |-> "process_sale_transaction", ok |-> FALSE,
               val |-> <<"raise", fail_at, cart_items>>]
    /\ Forget
    /\ UNCHANGED <<customers, logs, users, seg, session_state, conns>>

process_sale_transaction(cart_items, total, operator, customer_mobile) ==
    /\ Len(sales) < MaxSales
    /\ LET sale_id == Len(sales) + 1
           key == Strip(customer_mobile)
       IN /\ products' = DecrementStock(products, cart_items)
          /\ sales' = Append(sales,
                         NewSale(cart_items, total, operator, customer_mobile))
          /\ customers' =
                IF Truthy(customer_mobile) /\ key \in DOMAIN customers
                THEN LET new_spend == customers[key].total_spend + total
                     IN [customers EXCEPT ![key] =
                            [@ EXCEPT !.visits = @ + 1,
                                      !.total_spend = new_spend,
                                      !.segment = CommitSegment(new_spend)]]
                ELSE customers
          /\ ret' = [op |-> "process_sale_transaction", ok |-> TRUE, val |-> sale_id]
          /\ hist' = [age |-> 0, pre |-> products]
    /\ UNCHANGED <<logs, users, seg>>

CancelFails(msg) ==
    /\ Forget
    /\ ret' = [op |-> "cancel_sale_transaction", ok |-> FALSE, val |-> <<FALSE, msg>>]
    /\ UNCHANGED <<products, sales, customers, logs, users, seg, session_state, conns>>

cancel_sale_transaction(sale_id, operator, role, reason, password) ==
    IF ReasonRejected(reason)
    THEN CancelFails("Cancellation reason is mandatory and must be descriptive.")
    ELSE IF ~CredentialMatches(users, operator, password)
    THEN CancelFails("Invalid Password. Identity verification failed.")
    ELSE IF sale_id \notin 1..Len(sales)
    THEN CancelFails("Sale ID not found")
    ELSE IF AlreadyCancelled(sales[sale_id])
    THEN CancelFails("Sale already cancelled")
    ELSE LET sale == sales[sale_id]
                items_ids == ParseItems(sale.items_data)
            IN /\ products' = RestoreStock(products, items_ids)
               /\ customers' = AdjustSpend(customers, sale.customer_mobile,
                                           sale.total_amount)
               /\ sales' = [sales EXCEPT ![sale_id] =
                               MarkCancelled(@, reason, operator, Now)]
               /\ logs' = Append(logs,
                             [timestamp |-> Now,
                              user |-> operator, action |-> "Undo Sale",
                              details |-> <<"Cancelled Sale #", sale_id,
                                            ". Value: ", sale.total_amount,
                                            ". Reason: ", reason>>])
               /\ ret' = [op |-> "cancel_sale_transaction", ok |-> TRUE,
                          val |-> <<TRUE, "Success. Order cancelled.">>]
               /\ hist' = IF hist.age = 0 THEN [hist EXCEPT !.age = 1] ELSE NoHist
               /\ UNCHANGED <<users, seg, session_state, conns>>

\* cancel_sale_transaction up to the row it reads: the reason check, and on
\* connection c the credential SELECT and the sale SELECT with the status
\* test.  The SELECTs run before the connection's first UPDATE, so outside
\* the write transaction, and another connection may write after them.
cancel_sale_read(c, sale_id, operator, role, reason, password) ==
    /\ conns[c] = <<>>
    /\ IF ReasonRejected(reason)
       THEN CancelFails("Cancellation reason is mandatory and must be descriptive.")
       ELSE IF ~CredentialMatches(users, operator, password)
       THEN CancelFails("Invalid Password. Identity verification failed.")
       ELSE IF sale_id \notin 1..Len(sales)
       THEN CancelFails("Sale ID not found")
       ELSE IF AlreadyCancelled(sales[sale_id])
       THEN CancelFails("Sale already cancelled")
       ELSE /\ conns' = [conns EXCEPT ![c] =
                            <<[sale_id |-> sale_id, operator |-> operator,
                               reason |-> reason,
                               items_data_str |-> sales[sale_id].items_data,
                               total_amount |-> sales[sale_id].total_amount,
                               cust_mobile |-> sales[sale_id].customer_mobile]>>]
            /\ UNCHANGED <<products, sales, customers, logs, users, ret, hist,
                           seg, session_state>>

\* The rest of cancel_sale_transaction on connection c: the UPDATEs and the
\* log INSERT in one write transaction, from the row read before, then
\* conn.commit() and the return
cancel_sale_write(c) ==
    /\ conns[c] # <<>>
    /\ LET res == conns[c][1]
           items_ids == ParseItems(res.items_data_str)
       IN /\ products' = RestoreStock(products, items_ids)
          /\ customers' = AdjustSpend(customers, res.cust_mobile, res.total_amount)
          /\ sales' = [sales EXCEPT ![res.sale_id] =
                          MarkCancelled(@, res.reason, res.operator, Now)]
          /\ logs' = Append(logs,
                        [timestamp |-> Now,
                         user |-> res.operator, action |-> "Undo Sale",
                         details |-> <<"Cancelled Sale #", res.sale_id,
                                       ". Value: ", res.total_amount,
                                       ". Reason: ", res.reason>>])
          /\ ret' = [op |-> "cancel_sale_transaction", ok |-> TRUE,
                     val |-> <<TRUE, "Success. Order cancelled.">>]
    /\ conns' = [conns EXCEPT ![c] = <<>>]
    /\ Forget
    /\ UNCHANGED <<users, seg, session_state>>

\* A log_activity that writes over the latest entry when there is one
log_activity_overwrites(user, action, details) ==
    /\ Forget
    /\ logs' = (IF logs = <<>> THEN <<>> ELSE SubSeq(logs, 1, Len(logs) - 1))
                \o <<[timestamp |-> Now, user |-> user, action |-> action,
                      details |-> details]>>
    /\ ret' = [op |-> "log_activity", ok |-> TRUE, val |-> None]
    /\ UNCHANGED <<products, sales, customers, users, seg, session_state, conns>>

\* INSERT INTO logs (timestamp, user, action, details) VALUES (?, ?, ?, ?)
log_activity(user, action, details) ==
    /\ Forget
    /\ logs' = Append(logs, [timestamp |-> Now, user |-> user, action |-> action,
                             details |-> details])
    /\ ret' = [op |-> "log_activity", ok |-> TRUE, val |-> None]
    /\ UNCHANGED <<products, sales, customers, users, seg, session_state, conns>>

upsert_customer(mobile, name, email) ==
    /\ Forget
    /\ LET key == Strip(mobile)
       IN customers' =
             IF key \in DOMAIN customers
             THEN [customers EXCEPT ![key] = [@ EXCEPT !.name = name, !.email = email]]
             ELSE [m \in DOMAIN customers \cup {key} |->
                      IF m = key
                      THEN [name |-> name, email |-> email, visits |-> 0,
                            total_spend |-> 0, segment |-> "New"]
                      ELSE customers[m]]
    /\ ret' = [op |-> "upsert_customer", ok |-> TRUE, val |-> None]
    /\ UNCHANGED <<products, sales, logs, users, seg, session_state, conns>>

restock_product(p_id, quantity) ==
    /\ Forget
    /\ IF quantity <= 0
       THEN /\ ret' = [op |-> "restock_product", ok |-> FALSE, val |-> FALSE]
            /\ UNCHANGED products
       ELSE /\ p_id \in DOMAIN products => products[p_id].stock + quantity <= MaxStock
            /\ products' =
                  IF p_id \in DOMAIN products
                  THEN [products EXCEPT ![p_id].stock = @ + quantity]
                  ELSE products
            /\ ret' = [op |-> "restock_product", ok |-> TRUE, val |-> None]
    /\ UNCHANGED <<sales, customers, logs, users, seg, session_state, conns>>

\* UPDATE products SET name=?, category=?, price=?, stock=?, cost_price=?
\* WHERE id = p_id: of the columns modelled, stock is overwritten
update_product(p_id, stock) ==
    /\ Forget
    /\ products' = IF p_id \in DOMAIN products
                   THEN [products EXCEPT ![p_id].stock = stock]
                   ELSE products
    /\ ret' = [op |-> "update_product", ok |-> TRUE, val |-> None]
    /\ UNCHANGED <<sales, customers, logs, users, seg, session_state, conns>>

\* DELETE FROM products WHERE id = p_id
delete_product(p_id) ==
    /\ Forget
    /\ products' = [p \in DOMAIN products \ {p_id} |-> products[p]]
    /\ ret' = [op |-> "delete_product", ok |-> TRUE, val |-> None]
    /\ UNCHANGED <<sales, customers, logs, users, seg, session_state, conns>>

-----------------------------------------------------------------------------
(* Reporting *)

\* The category column of the products table; the operations modelled leave it
\* as the product was added
CategoryOf(p) == IF p = 1 THEN "Snacks" ELSE "Beverages"

\* cat_map = products.set_index('id')['category'].to_dict()
cat_map == [p \in DOMAIN products |-> CategoryOf(p)]

\* d.get(key, default) of a dict
Get(d, key, default) == IF key \in DOMAIN d THEN d[key] ELSE default

\* d[key] = value on a dict
Put(d, key, value) ==
    [k \in DOMAIN d \cup {key} |-> IF k = key THEN value ELSE d[k]]

\* Revenue is counted in units of 1/ShareUnits, so that a total divided by
\* any number of items up to MaxCart is exact (the code divides floats)
RECURSIVE Factorial(_)
Factorial(n) == IF n <= 1 THEN 1 ELSE n * Factorial(n - 1)
ShareUnits == Factorial(MaxCart)

\* A report that reads every sale, the Cancelled ones too
ReportedAll(sale) == TRUE

\* SELECT items_data, total_amount FROM sales WHERE status != 'Cancelled'
Reported(sale) == sale.status # "Cancelled"

\* for iid in item_ids: cat = cat_map.get(iid, "Unknown");
\* share = total_amount / len(item_ids);
\* cat_sales[cat] = cat_sales.get(cat, 0) + share
RECURSIVE AddShares(_, _, _, _)
AddShares(cat_sales, item_ids, total_amount, n_items) ==
    IF item_ids = <<>> THEN cat_sales
    ELSE LET cat == Get(cat_map, Head(item_ids), "Unknown")
             share == total_amount * (ShareUnits \div n_items)
         IN AddShares(Put(cat_sales, cat, Get(cat_sales, cat, 0) + share),
                      Tail(item_ids), total_amount, n_items)

\* The rows of the report: category -> revenue in 1/ShareUnits
get_category_performance ==
    LET cat_sales[i \in 0..Len(sales)] ==
            IF i = 0 THEN <<>>
            ELSE IF Reported(sales[i]) /\ Truthy(sales[i].items_data)
                 THEN LET item_ids == ParseItems(sales[i].items_data)
                      IN AddShares(cat_sales[i - 1], item_ids,
                                   sales[i].total_amount, Len(item_ids))
                 ELSE cat_sales[i - 1]
    IN cat_sales[Len(sales)]

-----------------------------------------------------------------------------
(* POS sessions *)

\* The "Add" button of a product card: the run that handles the click reads
\* the products (refresh_trie), counts the units of the item already in the
\* cart, and appends the item if item['stock'] > cart_qty
AddToCart(s, item) ==
    /\ session_state[s].checkout_stage = "cart"
    /\ Len(session_state[s].cart) < MaxCart
    /\ item \in DOMAIN products
    /\ LET cart == session_state[s].cart
           cart_qty == Cardinality({k \in 1..Len(cart) : cart[k] = item})
       IN products[item].stock > cart_qty
    /\ session_state' = [session_state EXCEPT ![s].cart = Append(@, item)]
    /\ UNCHANGED <<products, sales, customers, logs, users, ret, hist, seg, conns>>

\* The session confirms payment for its cart: process_sale_transaction on the
\* cart as it stands; the stages between "Pay" and the confirmation read no
\* stock.  The cart is kept for the receipt.
ConfirmPayment(s, total, operator, customer_mobile) ==
    /\ session_state[s].checkout_stage = "cart"
    /\ session_state[s].cart # <<>>
    /\ Truthy(customer_mobile)
    /\ process_sale_transaction(session_state[s].cart, total, operator,
                                customer_mobile)
    /\ session_state' = [session_state EXCEPT ![s].checkout_stage = "receipt"]
    /\ UNCHANGED conns

\* "Start New Sale" on the receipt page
StartNewSale(s) ==
    /\ session_state[s].checkout_stage = "receipt"
    /\ session_state' = [session_state EXCEPT
                            ![s] = [cart |-> <<>>, checkout_stage |-> "cart"]]
    /\ UNCHANGED <<products, sales, customers, logs, users, ret, hist, seg, conns>>

-----------------------------------------------------------------------------
(* Specifications *)

Commit ==
    \E cart_items \in Carts, t \in Tenders :
        /\ process_sale_transaction(cart_items, t[1], t[2], t[3])
        /\ UNCHANGED <<session_state, conns>>

Cancel ==
    \E sale_id \in 1..(MaxSales + 1), r \in Requesters, reason \in Reasons :
        cancel_sale_transaction(sale_id, r[1], r[2], reason, r[3])

Upsert ==
    \E mobile \in Mobiles, name \in Names, email \in Emails :
        upsert_customer(mobile, name, email)

Restock ==
    \E p_id \in ProductIds, quantity \in Quantities : restock_product(p_id, quantity)

Next == Commit \/ Cancel \/ Upsert

\* Sales, cancellations and customer registration on a fixed catalog
Spec == Init /\ [][Next]_vars

Delete == \E p_id \in ProductIds : delete_product(p_id)

NextCatalog == Commit \/ Delete

\* Sales from carts filled before products are deleted from the catalog
SpecCatalog == Init /\ [][NextCatalog]_vars

NextSessions ==
    \E s \in SessionIds :
        \/ \E item \in ProductIds : AddToCart(s, item)
        \/ \E t \in Tenders : ConfirmPayment(s, t[1], t[2], t[3])
        \/ StartNewSale(s)

\* Two POS sessions filling carts and paying against one catalog
SpecSessions == Init /\ [][NextSessions]_vars

CancelRead ==
    \E c \in ConnIds, sale_id \in 1..MaxSales, r \in Requesters, reason \in Reasons :
        cancel_sale_read(c, sale_id, r[1], r[2], reason, r[3])

CancelWrite == \E c \in ConnIds : cancel_sale_write(c)

NextConns == Commit \/ CancelRead \/ CancelWrite

\* Sales, and cancellations that run concurrently on separate connections
SpecConns == Init /\ [][NextConns]_vars

\* The stock values a product edit may write
Stocks == 0..MaxStock

Update == \E p_id \in ProductIds, stock \in Stocks : update_product(p_id, stock)

NextEdit == Commit \/ Restock \/ Update

\* Sales, restocking and product edits
SpecEdit == Init /\ [][NextEdit]_vars

CommitRaises ==
    \E cart_items \in Carts, t \in Tenders, fail_at \in FailurePoints :
        process_sale_transaction_raises(cart_items, t[1], t[2], t[3], fail_at)

NextFailure == Commit \/ CommitRaises \/ Upsert

\* Sales some of which fail in the middle, and customer registration
SpecFailure == Init /\ [][NextFailure]_vars

\* The entries log_activity adds before the model stops calling it
MaxLogs == 2

\* <<user, action, details>> of the calls main.py makes at login, at logout
\* and after a settings update
Activities ==
    {<<"admin", "Login", "Accessed System">>,
     <<"admin", "Logout", "Session Ended">>,
     <<"admin", "Settings Update", "Modified">>}

LogActivity ==
    /\ Len(logs) < MaxLogs
    /\ \E a \in Activities : log_activity(a[1], a[2], a[3])

NextAudit == Commit \/ Cancel \/ LogActivity

\* Sales and cancellations between logins, logouts and settings updates
SpecAudit == Init /\ [][NextAudit]_vars

NextStock == Commit \/ Cancel \/ Restock

\* Sales, cancellations and restocking
SpecStock == Init /\ [][NextStock]_vars

-----------------------------------------------------------------------------
(* The checkout of a POS session, stage by stage *)

\* "Pay" on the cart page, with a customer selected
Pay(s) ==
    /\ session_state[s].checkout_stage = "cart"
    /\ session_state[s].cart # <<>>
    /\ session_state' = [session_state EXCEPT ![s].checkout_stage = "payment_method"]
    /\ UNCHANGED <<products, sales, customers, logs, users, ret, hist, seg, conns>>

\* "Back to Cart" on the payment-method page
BackToCart(s) ==
    /\ session_state[s].checkout_stage = "payment_method"
    /\ session_state' = [session_state EXCEPT ![s].checkout_stage = "cart"]
    /\ UNCHANGED <<products, sales, customers, logs, users, ret, hist, seg, conns>>

\* "Cash", "UPI" or "Card" on the payment-method page
SelectPaymentMode(s) ==
    /\ session_state[s].checkout_stage = "payment_method"
    /\ session_state' = [session_state EXCEPT ![s].checkout_stage = "payment_process"]
    /\ UNCHANGED <<products, sales, customers, logs, users, ret, hist, seg, conns>>

\* "Cancel" on the payment page
CancelPayment(s) ==
    /\ session_state[s].checkout_stage = "payment_process"
    /\ session_state' = [session_state EXCEPT ![s].checkout_stage = "payment_method"]
    /\ UNCHANGED <<products, sales, customers, logs, users, ret, hist, seg, conns>>

\* def process_sale_transaction(cart_items, total, mode, operator, pos_id,
\*     customer_mobile, tax_amount, integrity_hash, time_taken)
ProcessSaleParameters ==
    <<"cart_items", "total", "mode", "operator", "pos_id", "customer_mobile",
      "tax_amount", "integrity_hash", "time_taken">>

\* The positional arguments of the call in finalize_sale: the cart, total,
\* mode, operator, pos_id, customer_mobile, calc['tax'], calc['points'],
\* points_earned, integrity_hash, 30
FinalizeSaleArguments(cart, total, mode, operator, customer_mobile) ==
    <<cart, total, mode, operator, "POS-1", customer_mobile, 0, 0, 0, "NA", 30>>

\* A call binds its positional arguments to the parameters, none of which
\* has a default, when there is one argument for each; otherwise Python
\* raises TypeError before the body runs
Binds(arguments, parameters) == Len(arguments) = Len(parameters)

\* The confirmation button of the payment page: finalize_sale(total, mode).
\* try: sale_id = db.process_sale_transaction(...); db.log_activity(...);
\* checkout_stage = 'receipt'  except Exception as e: st.error(...)
finalize_sale(s, total, mode, operator, customer_mobile) ==
    /\ session_state[s].checkout_stage = "payment_process"
    /\ Truthy(customer_mobile)
    /\ LET arguments == FinalizeSaleArguments(session_state[s].cart, total, mode,
                                              users[operator].full_name,
                                              customer_mobile)
       IN IF Binds(arguments, ProcessSaleParameters)
          THEN LET key == Strip(arguments[6])
                   sale_id == Len(sales) + 1
               IN /\ Len(sales) < MaxSales
                  /\ products' = DecrementStock(products, arguments[1])
                  /\ sales' = Append(sales, NewSale(arguments[1], arguments[2],
                                                    arguments[4], arguments[6]))
                  /\ customers' =
                        IF key \in DOMAIN customers
                        THEN LET new_spend == customers[key].total_spend + total
                             IN [customers EXCEPT ![key] =
                                    [@ EXCEPT !.visits = @ + 1,
                                              !.total_spend = new_spend,
                                              !.segment = CommitSegment(new_spend)]]
                        ELSE customers
                  /\ logs' = Append(logs,
                                [timestamp |-> Now, user |-> arguments[4],
                                 action |-> "Sale Completed",
                                 details |-> <<"Sale #", sale_id, " for ", total>>])
                  /\ hist' = [age |-> 0, pre |-> products]
                  /\ ret' = [op |-> "finalize_sale", ok |-> TRUE,
                             val |-> <<s, sale_id>>]
                  /\ session_state' =
                        [session_state EXCEPT ![s].checkout_stage = "receipt"]
          ELSE /\ Forget
               /\ ret' = [op |-> "finalize_sale", ok |-> FALSE,
                          val |-> <<s, "Transaction Failed: TypeError">>]
               /\ UNCHANGED <<products, sales, customers, logs, session_state>>
    /\ UNCHANGED <<users, seg, conns>>

PaymentModes == {"Cash", "UPI", "Card"}

NextCheckout ==
    \E s \in SessionIds :
        \/ \E item \in ProductIds : AddToCart(s, item)
        \/ Pay(s)
        \/ BackToCart(s)
        \/ SelectPaymentMode(s)
        \/ CancelPayment(s)
        \/ \E t \in Tenders, mode \in PaymentModes :
              finalize_sale(s, t[1], mode, t[2], t[3])

\* Two POS sessions going through the checkout stages
SpecCheckout == Init /\ [][NextCheckout]_vars

-----------------------------------------------------------------------------
(* The start of a browser session: init_db, then seed_advanced_demo_data   *)

\* A demo customer of the seeding, and the time of a seeded sale
\* (datetime.now() - timedelta(days=days_ago))
DemoMobile == <<"+", "9">>
SeedTime == <<"now", "-", "days_ago">>
SeedStatuses == {"Completed", "Cancelled"}

\* INSERT OR REPLACE INTO users (...) VALUES (u, ph, r, n, 'Active') for the
\* two default accounts
ReplaceDefaultUsers(usrs) ==
    [u \in DOMAIN usrs \cup DOMAIN DefaultUsers |->
        IF u \in DOMAIN DefaultUsers THEN DefaultUsers[u] ELSE usrs[u]]

\* INSERT OR IGNORE INTO customers (...) VALUES (mob, name, email, 'New', 0, 0)
\* and, after the sales, UPDATE customers SET visits=?, total_spend=?
SeedCustomers(custs, mob, visits, spend) ==
    [m \in DOMAIN custs \cup {mob} |->
        IF m = mob
        THEN [(IF mob \in DOMAIN custs THEN custs[mob]
               ELSE [name |-> "Amit", email |-> "amit.s@example.com",
                     visits |-> 0, total_spend |-> 0, segment |-> "New"])
              EXCEPT !.visits = visits, !.total_spend = spend]
        ELSE custs[m]]

\* if 'initialized' not in st.session_state: db.init_db();
\* db.seed_advanced_demo_data().  Both rewrite the default accounts.  A sales
\* table below the seeding threshold gets demo sales (one here, where the
\* code inserts 50, so that a seeded table is not seeded again): rows
\* inserted directly, with no UPDATE of products.
Initialization ==
    /\ Forget
    /\ users' = ReplaceDefaultUsers(ReplaceDefaultUsers(users))
    /\ IF sales = <<>>
       THEN \E chosen \in Carts \ {<<>>}, op \in {"admin", "operator"},
               status \in SeedStatuses :
               LET total == 100 * Len(chosen)
                   counted == status = "Completed"
               IN /\ sales' = <<[NewSale(chosen, total, op, DemoMobile)
                                  EXCEPT !.timestamp = SeedTime,
                                         !.status = status]>>
                  /\ customers' =
                        SeedCustomers(customers, DemoMobile,
                                      IF counted THEN 1 ELSE 0,
                                      IF counted THEN total ELSE 0)
       ELSE UNCHANGED <<sales, customers>>
    /\ ret' = [op |-> "seed_advanced_demo_data", ok |-> TRUE, val |-> None]
    /\ UNCHANGED <<products, logs, seg, session_state, conns>>

NextSeed == Initialization \/ Commit \/ Cancel

\* Sales and cancellations on a database that sessions seed at their start
SpecSeed == Init /\ [][NextSeed]_vars

-----------------------------------------------------------------------------
(* User accounts *)

Usernames == {"admin", "operator", "cashier"}
Passwords == {"admin123", "new123"}
Statuses == {"Active", "Suspended"}

\* INSERT INTO users (...) VALUES (?, ?, ?, ?, 'Active'); username is the
\* primary key, and the failed insert of a taken name returns False
create_user(username, password, role, fullname) ==
    /\ Forget
    /\ IF username \in DOMAIN users
       THEN /\ users' = users
            /\ ret' = [op |-> "create_user", ok |-> FALSE, val |-> FALSE]
       ELSE /\ users' = [u \in DOMAIN users \cup {username} |->
                            IF u = username
                            THEN [password_hash |-> sha256(password), role |-> role,
                                  full_name |-> fullname, status |-> "Active"]
                            ELSE users[u]]
            /\ ret' = [op |-> "create_user", ok |-> TRUE, val |-> TRUE]
    /\ UNCHANGED <<products, sales, customers, logs, seg, session_state, conns>>

\* UPDATE users SET status=? WHERE username=?
update_user_status(username, status) ==
    /\ Forget
    /\ users' = [u \in DOMAIN users |->
                    IF u = username THEN [users[u] EXCEPT !.status = status]
                    ELSE users[u]]
    /\ ret' = [op |-> "update_user_status", ok |-> TRUE, val |-> None]
    /\ UNCHANGED <<products, sales, customers, logs, seg, session_state, conns>>

\* UPDATE users SET password_hash=? WHERE username=?
update_password(username, new_password) ==
    /\ Forget
    /\ users' = [u \in DOMAIN users |->
                    IF u = username
                    THEN [users[u] EXCEPT !.password_hash = sha256(new_password)]
                    ELSE users[u]]
    /\ ret' = [op |-> "update_password", ok |-> TRUE, val |-> None]
    /\ UNCHANGED <<products, sales, customers, logs, seg, session_state, conns>>

\* SELECT status FROM users WHERE username=?; res[0] if res else "Active"
get_user_status(usrs, username) ==
    IF username \in DOMAIN usrs THEN usrs[username].status ELSE "Active"

\* SELECT 1 FROM users WHERE username=? AND password_hash=?; res is not None
verify_password(usrs, username, password) ==
    username \in DOMAIN usrs /\ usrs[username].password_hash = sha256(password)

CreateUser ==
    \E password \in Passwords : create_user("cashier", password, "Operator", "Cashier")

UpdateUserStatus ==
    \E username \in Usernames, status \in Statuses :
        update_user_status(username, status)

UpdatePassword ==
    \E username \in Usernames, new_password \in Passwords :
        update_password(username, new_password)

NextUsers ==
    CreateUser \/ UpdateUserStatus \/ UpdatePassword \/ Initialization \/ Cancel

\* Account administration, session starts and cancellations
SpecUsers == Init /\ [][NextUsers]_vars

-----------------------------------------------------------------------------
(* The segment computation on its own: one spend value, labelled by the    *)
(* sale commit and by the demo-data import.                                *)

MaxVisits == 2

SegSpends ==
    {0, 1, 100, 9999, 10000, 10001, 12000, 14999, 15000, 15001, 20000,
     49999, 50000, 50001, 60000}

InitSegment ==
    /\ products = [p \in ProductIds |-> [stock |-> InitialStock(p), sales_count |-> 0]]
    /\ sales = <<>>
    /\ customers = <<>>
    /\ logs = <<>>
    /\ users = DefaultUsers
    /\ ret = [op |-> "init_db", ok |-> TRUE, val |-> None]
    /\ hist = NoHist
    /\ session_state = NoSessions
    /\ conns = NoConns
    /\ seg \in [spend : SegSpends, visits : 1..MaxVisits,
                commit : {NoLabel}, seed : {NoLabel}]

\* process_sale_transaction labels a customer whose new spend is seg.spend
LabelAtCommit ==
    /\ seg.commit = NoLabel
    /\ seg' = [seg EXCEPT !.commit = CommitSegment(seg.spend)]
    /\ UNCHANGED <<products, sales, customers, logs, users, ret, hist, session_state, conns>>

\* seed_advanced_demo_data labels a customer whose imported spend is seg.spend
LabelAtSeed ==
    /\ seg.seed = NoLabel
    /\ seg' = [seg EXCEPT !.seed = SeedSegment(seg.spend, seg.visits)]
    /\ UNCHANGED <<products, sales, customers, logs, users, ret, hist, session_state, conns>>

NextSegment == LabelAtCommit \/ LabelAtSeed

SpecSegment == InitSegment /\ [][NextSegment]_vars

-----------------------------------------------------------------------------
(* Definitions the properties are stated with *)

\* How many times product p occurs in a sequence of product ids
Count(ids, p) == Cardinality({i \in 1..Len(ids) : ids[i] = p})

\* The unit references to p in the sales that are Completed now
CompletedUnits(p) ==
    LET units[i \in 0..Len(sales)] ==
            IF i = 0 THEN 0
            ELSE units[i - 1]
                 + (IF sales[i].status = "Completed"
                    THEN Count(ParseItems(sales[i].items_data), p) ELSE 0)
    IN units[Len(sales)]

\* Some product is referenced more often in the cart than it has stock
Overdemand(cart) ==
    \E p \in DOMAIN products : Count(cart, p) > products[p].stock

\* The label section 4.2 of the specification gives
SpecSegmentLabel(spend, visits) ==
    IF visits = 0 THEN "New"
    ELSE IF spend > 50000 THEN "High-Value"
    ELSE IF spend > 10000 THEN "Regular"
    ELSE "Occasional"

LastSale == sales[Len(sales)]

-----------------------------------------------------------------------------
(* Properties *)

\* C1: in every committed state reached by sale commits, cancellations and
\* restocks from a catalog of non-negative stock, every product's stock is
\* at least 0.
C1_StockNeverNegative == \A p \in DOMAIN products : products[p].stock >= 0

\* C2: a sale commit whose cart references some product more often than the
\* product has stock fails, and changes no product and creates no sale row.
C2_OverdemandRejected ==
    [][\A cart \in Carts, t \in Tenders :
          (ret'.op = "process_sale_transaction" /\ Overdemand(cart)
           /\ process_sale_transaction(cart, t[1], t[2], t[3]))
          => (~ret'.ok /\ products' = products /\ sales' = sales)]_vars

\* C3: on a fixed catalog, after any sequence of sale commits and
\* cancellations, each product's stock is its initial stock minus the number
\* of unit references to it in the sales that are Completed.
C3_StockConservation ==
    \A p \in DOMAIN products :
        products[p].stock = InitialStock(p) - CompletedUnits(p)

C3_Witness ==
    /\ Len(sales) = 2
    /\ sales[1].status = "Cancelled" /\ sales[1].items_data = <<"1", ",", "2">>
    /\ sales[2].status = "Completed" /\ sales[2].items_data = <<"1", ",", "1">>
    /\ products[1].stock = 0

\* C4: a sale commit lowers the stock of each product by the number of times
\* the product occurs in the cart, raises its sales_count by the same number,
\* and so leaves the products that are not in the cart as they were.
C4_CommitDecrementsPerUnit ==
    [][\A cart \in Carts, t \in Tenders :
          (ret'.op = "process_sale_transaction"
           /\ process_sale_transaction(cart, t[1], t[2], t[3]))
          => /\ DOMAIN products' = DOMAIN products
             /\ \A p \in DOMAIN products :
                   /\ products'[p].stock = products[p].stock - Count(cart, p)
                   /\ products'[p].sales_count =
                         products[p].sales_count + Count(cart, p)]_vars

\* stock 2, cart [1, 1]: stock 0, sales_count 2, product 2 untouched
C4_Witness ==
    /\ hist.age = 0
    /\ ret.op = "process_sale_transaction"
    /\ hist.pre[1].stock = 2
    /\ LastSale.items_data = <<"1", ",", "1">>
    /\ products[1] = [stock |-> 0, sales_count |-> 2]
    /\ products[2] = hist.pre[2]

\* C5: a cancellation that succeeds right after the commit of the sale it
\* cancels puts the stock and the sales_count of every product of the sale
\* back to their values before the commit.
C5_CancelUndoesCommit ==
    (hist.age = 1 /\ LastSale.status = "Cancelled")
    => \A p \in DOMAIN products :
          Count(ParseItems(LastSale.items_data), p) > 0
          => /\ products[p].stock = hist.pre[p].stock
             /\ products[p].sales_count = hist.pre[p].sales_count

C5_Witness ==
    /\ hist.age = 1
    /\ LastSale.status = "Cancelled"
    /\ LastSale.items_data = <<"1", ",", "1">>
    /\ products[1] = hist.pre[1]

\* C6: a cancellation requested for a sale that is already Cancelled changes
\* no product, customer, sale or log entry, and, when its reason and
\* credential pass, returns the already-cancelled failure.
C6_NoDoubleCancellation ==
    [][ret'.op = "cancel_sale_transaction"
       => \A sale_id \in 1..Len(sales) :
             sales[sale_id].status = "Cancelled"
             => \A r \in Requesters, reason \in Reasons :
                   cancel_sale_transaction(sale_id, r[1], r[2], reason, r[3])
                   => /\ UNCHANGED <<products, customers, sales, logs>>
                      /\ ~ret'.ok
                      /\ (Truthy(reason) /\ Len(Strip(reason)) >= 3
                          /\ users[r[1]].password_hash = sha256(r[3]))
                         => ret'.val = <<FALSE, "Sale already cancelled">>]_vars

C6_Witness ==
    /\ ret.op = "cancel_sale_transaction"
    /\ ret.val = <<FALSE, "Sale already cancelled">>
    /\ \E i \in 1..Len(sales) :
          sales[i].status = "Cancelled" /\ sales[i].items_data # <<>>
                                        /\ sales[i].customer_mobile # None

\* C7: a cancellation requested with a non-administrative role for a sale
\* made by another operator fails and changes nothing; requested with the
\* administrative role it succeeds.
C7_OperatorsCancelOwnSalesOnly ==
    [][\A sale_id \in 1..Len(sales), r \in Requesters, reason \in Reasons :
          (/\ ret'.op = "cancel_sale_transaction"
           /\ sales[sale_id].status = "Completed"
           /\ sales[sale_id].operator # r[1]
           /\ Truthy(reason) /\ Len(Strip(reason)) >= 3
           /\ users[r[1]].password_hash = sha256(r[3])
           /\ cancel_sale_transaction(sale_id, r[1], r[2], reason, r[3]))
          => IF r[2] = "Admin"
             THEN ret'.ok /\ sales'[sale_id].status = "Cancelled"
             ELSE ~ret'.ok /\ UNCHANGED <<products, customers, sales, logs>>]_vars

\* C8: after a sale commit that names a customer, the customer's record
\* exists, its total_spend is the previous total_spend (0 if the record is
\* new) plus the sale total, and its visits are the previous visits plus 1.
C8_CommitCreatesOrUpdatesCustomer ==
    [][\A cart \in Carts, t \in Tenders :
          (ret'.op = "process_sale_transaction" /\ Truthy(t[3])
           /\ process_sale_transaction(cart, t[1], t[2], t[3]))
          => LET key == Strip(t[3])
                 old == IF key \in DOMAIN customers
                        THEN customers[key]
                        ELSE [visits |-> 0, total_spend |-> 0]
             IN /\ key \in DOMAIN customers'
                /\ customers'[key].total_spend = old.total_spend + t[1]
                /\ customers'[key].visits = old.visits + 1]_vars

\* C9: in every committed state reached by customer registrations, sale
\* commits and cancellations, each customer's segment is the section 4.2
\* label of the customer's total_spend and visits.
C9_SegmentFollowsSpend ==
    \A m \in DOMAIN customers :
        LET c == customers[m]
        IN /\ c.total_spend > 50000 => c.segment = "High-Value"
           /\ (c.total_spend > 10000 /\ c.total_spend <= 50000)
                 => c.segment = "Regular"
           /\ (c.total_spend <= 10000 /\ c.visits > 0) => c.segment = "Occasional"
           /\ c.visits = 0 => c.segment = "New"

\* C10: every code path that labels a spend value (the sale commit and the
\* demo-data import) gives the section 4.2 label, with the boundaries at
\* 10000 and 50000: 50000 is Regular, 50001 High-Value, 10000 Occasional,
\* 10001 Regular.
C10_SameBoundariesOnEveryPath ==
    /\ seg.commit # NoLabel => seg.commit = SpecSegmentLabel(seg.spend, seg.visits)
    /\ seg.seed # NoLabel => seg.seed = SpecSegmentLabel(seg.spend, seg.visits)

\* The sales a step cancels: Completed before it, Cancelled after it
CancelledByStep ==
    {i \in 1..Len(sales) : sales[i].status = "Completed"
                           /\ sales'[i].status = "Cancelled"}

\* C11: a cancellation that succeeds on a sale of a registered customer
\* lowers that customer's total_spend by the sale's total amount and leaves
\* the customer's visits, and every other customer, as they were.
C11_CancelLowersSpendOnly ==
    [][(ret'.op = "cancel_sale_transaction" /\ ret'.ok)
       => \A i \in CancelledByStep :
             LET m == sales[i].customer_mobile
             IN /\ DOMAIN customers' = DOMAIN customers
                /\ \A k \in DOMAIN customers :
                      IF Truthy(m) /\ k = m
                      THEN /\ customers'[k].total_spend =
                                 customers[k].total_spend - sales[i].total_amount
                           /\ customers'[k].visits = customers[k].visits
                      ELSE customers'[k] = customers[k]]_vars

\* a customer with two visits and spend 20100 after the sale of 20000 is
\* cancelled: spend 100, still two visits
C11_Witness ==
    /\ ret.op = "cancel_sale_transaction" /\ ret.ok
    /\ Len(sales) = 2
    /\ sales[2].status = "Cancelled" /\ sales[2].total_amount = 20000
    /\ sales[2].customer_mobile = <<"9">>
    /\ sales[1].status = "Completed" /\ sales[1].total_amount = 100
    /\ sales[1].customer_mobile = <<"9">>
    /\ <<"9">> \in DOMAIN customers
    /\ customers[<<"9">>].total_spend = 100
    /\ customers[<<"9">>].visits = 2

\* C12: a fresh customer (spend 0, visits 0, New) has spend 100, visits 1 and
\* segment Occasional after the commit of a sale of 100, and spend 0, visits 1
\* and segment New after that sale is cancelled.
C12_FreshCustomerCommitThenCancel ==
    (/\ Len(sales) = 1
     /\ sales[1].total_amount = 100
     /\ sales[1].customer_mobile = <<"9">>
     /\ <<"9">> \in DOMAIN customers
     /\ customers[<<"9">>].visits = 1)
    => LET c == customers[<<"9">>]
       IN IF sales[1].status = "Completed"
          THEN c.total_spend = 100 /\ c.segment = "Occasional"
          ELSE c.total_spend = 0 /\ c.segment = "New"

ValidationFailure ==
    <<FALSE, "Cancellation reason is mandatory and must be descriptive.">>

\* C13: a cancellation whose reason is missing, or shorter than 3 characters
\* once the surrounding blanks are trimmed, returns the validation failure
\* and changes no sale, product, customer or log entry.
C13_ShortReasonRejected ==
    [][(/\ ret'.op = "cancel_sale_transaction"
        /\ ~(/\ ret'.val = ValidationFailure
             /\ UNCHANGED <<products, customers, sales, logs>>))
       => \A reason \in Reasons :
             (reason = None \/ Len(Strip(reason)) < 3)
             => \A sale_id \in 1..(MaxSales + 1), r \in Requesters :
                   ~cancel_sale_transaction(sale_id, r[1], r[2], reason, r[3])]_vars

\* the validation failure was returned while a sale with items and a
\* customer was there to cancel
C13_Witness ==
    /\ ret.op = "cancel_sale_transaction"
    /\ ret.val = ValidationFailure
    /\ \E i \in 1..Len(sales) :
          /\ sales[i].status = "Completed"
          /\ sales[i].items_data # <<>>
          /\ sales[i].customer_mobile \in DOMAIN customers

IdentityFailure == <<FALSE, "Invalid Password. Identity verification failed.">>

\* C14: a cancellation whose password does not hash to the requesting
\* operator's stored password_hash fails and changes no sale, product,
\* customer or log entry, whoever made the sale; with a reason that passes
\* the reason check it returns the identity-verification failure.
C14_WrongPasswordRejected ==
    [][(/\ ret'.op = "cancel_sale_transaction"
        /\ ~(/\ ret'.val = IdentityFailure
             /\ UNCHANGED <<products, customers, sales, logs>>))
       => \A r \in Requesters :
             users[r[1]].password_hash # sha256(r[3])
             => \A sale_id \in 1..(MaxSales + 1), reason \in Reasons :
                   cancel_sale_transaction(sale_id, r[1], r[2], reason, r[3])
                   => /\ reason = None \/ Len(Strip(reason)) < 3
                      /\ ~ret'.ok
                      /\ UNCHANGED <<products, customers, sales, logs>>]_vars

\* the identity failure was returned while a sale of each operator was there
\* to cancel
C14_Witness ==
    /\ ret.op = "cancel_sale_transaction"
    /\ ret.val = IdentityFailure
    /\ Len(sales) = 2
    /\ sales[1].status = "Completed" /\ sales[2].status = "Completed"
    /\ sales[1].operator = "operator" /\ sales[2].operator = "admin"
    /\ sales[1].items_data # <<>>

\* C15: the status of a sale changes only from Completed to Cancelled, and
\* only in a step that is a successful cancellation; a successful
\* cancellation cancels one sale that was Completed, so no sale is cancelled
\* twice and none returns to Completed; sales are never removed.
C15_StatusMovesOnceToCancelled ==
    [][/\ Len(sales') >= Len(sales)
       /\ \A i \in 1..Len(sales) :
             sales'[i].status # sales[i].status
             => /\ sales[i].status = "Completed"
                /\ sales'[i].status = "Cancelled"
                /\ ret'.op = "cancel_sale_transaction" /\ ret'.ok
       /\ (ret'.op = "cancel_sale_transaction" /\ ret'.ok)
             => Cardinality(CancelledByStep) = 1]_vars

\* a sale was cancelled, and a later commit left it Cancelled
C15_Witness ==
    /\ Len(sales) = 2
    /\ sales[1].status = "Cancelled"
    /\ sales[2].status = "Completed"
    /\ ret.op = "process_sale_transaction"

\* C16: no step changes the items_data, total_amount, operator, timestamp or
\* customer_mobile of a sale that exists; a sale changes only in a successful
\* cancellation, and then at most in its status, cancellation_reason,
\* cancelled_by and cancellation_timestamp.
C16_CommittedSaleIsImmutable ==
    [][\A i \in 1..Len(sales) :
          /\ i \in 1..Len(sales')
          /\ sales'[i].items_data = sales[i].items_data
          /\ sales'[i].total_amount = sales[i].total_amount
          /\ sales'[i].operator = sales[i].operator
          /\ sales'[i].timestamp = sales[i].timestamp
          /\ sales'[i].customer_mobile = sales[i].customer_mobile
          /\ sales'[i] # sales[i]
                => ret'.op = "cancel_sale_transaction" /\ ret'.ok]_vars

\* sale 1 was cancelled and still has the items, total, operator, timestamp
\* and customer it was committed with
C16_Witness ==
    /\ Len(sales) >= 1
    /\ sales[1].status = "Cancelled"
    /\ sales[1].cancelled_by = "operator"
    /\ sales[1].items_data = <<"1", ",", "2">>
    /\ sales[1].total_amount = 20000
    /\ sales[1].operator = "admin"
    /\ sales[1].timestamp = Now
    /\ sales[1].customer_mobile = <<"9">>

\* C17: a commit adds exactly one sale, leaves the earlier sales as they
\* were, gives the new sale the status Completed and returns its id; the
\* new sale's items_data, parsed as the cancellation parses it, is the cart's
\* sequence of product ids with its repeats.
C17_CommitStoresTheCart ==
    [][ret'.op = "process_sale_transaction"
       => /\ ret'.ok
          /\ Len(sales') = Len(sales) + 1
          /\ \A i \in 1..Len(sales) : sales'[i] = sales[i]
          /\ sales'[Len(sales')].status = "Completed"
          /\ ret'.val = Len(sales')
          /\ \A cart \in Carts, t \in Tenders :
                process_sale_transaction(cart, t[1], t[2], t[3])
                => ParseItems(sales'[Len(sales')].items_data) = cart]_vars

\* the commit of the cart [2, 2] returned 2, the id of the new row
C17_Witness ==
    /\ ret.op = "process_sale_transaction"
    /\ Len(sales) = 2
    /\ ret.val = 2
    /\ sales[2].status = "Completed"
    /\ sales[2].items_data = <<"2", ",", "2">>
    /\ ParseItems(sales[2].items_data) = <<2, 2>>

\* C18: a cancellation that succeeds marks one sale Cancelled with the
\* reason given, the cancelling operator and a cancellation timestamp, and in
\* the same step appends exactly one log entry, by that operator, whose
\* details name the sale id, the sale's value and the reason; a cancellation
\* that fails appends no log entry.
C18_CancelIsRecordedAndLogged ==
    [][ret'.op = "cancel_sale_transaction"
       => IF ret'.ok
          THEN /\ Cardinality(CancelledByStep) = 1
               /\ Len(logs') = Len(logs) + 1
               /\ \A k \in 1..Len(logs) : logs'[k] = logs[k]
               /\ \A i \in CancelledByStep :
                     /\ sales'[i].cancellation_timestamp = Now
                     /\ logs'[Len(logs')].action = "Undo Sale"
                     /\ logs'[Len(logs')].user = sales'[i].cancelled_by
                     /\ logs'[Len(logs')].details =
                           <<"Cancelled Sale #", i, ". Value: ",
                             sales[i].total_amount, ". Reason: ",
                             sales'[i].cancellation_reason>>
                     /\ \A r \in Requesters, reason \in Reasons :
                           cancel_sale_transaction(i, r[1], r[2], reason, r[3])
                           => /\ sales'[i].cancellation_reason = reason
                              /\ sales'[i].cancelled_by = r[1]
          ELSE logs' = logs]_vars

\* sale 2 of 20000 was cancelled by the operator: one log entry for it
C18_Witness ==
    /\ ret.op = "cancel_sale_transaction" /\ ret.ok
    /\ Len(sales) = 2 /\ Len(logs) = 1
    /\ sales[2].status = "Cancelled"
    /\ sales[2].cancelled_by = "operator"
    /\ sales[2].cancellation_reason = <<"b", "a", "d">>
    /\ sales[2].cancellation_timestamp = Now
    /\ logs[1].user = "operator"
    /\ logs[1].details = <<"Cancelled Sale #", 2, ". Value: ", 20000,
                           ". Reason: ", <<"b", "a", "d">>>>

\* C19: a sale commit whose cart references a product id that is not in the
\* catalog fails, creates no sale row and changes no product.
C19_MissingProductRejected ==
    [][\A cart \in Carts, t \in Tenders :
          (/\ ret'.op = "process_sale_transaction"
           /\ \E k \in 1..Len(cart) : cart[k] \notin DOMAIN products
           /\ process_sale_transaction(cart, t[1], t[2], t[3]))
          => (~ret'.ok /\ sales' = sales /\ products' = products)]_vars

UndoneTimes(i) ==
    Cardinality({k \in 1..Len(logs) :
                    logs[k].action = "Undo Sale" /\ logs[k].details[2] = i})

\* C21: however the cancellations on separate connections interleave, each
\* sale is cancelled successfully at most once, and its units come back to
\* the stock once: no product has more stock than it started with.
C21_ConcurrentCancelsUndoOnce ==
    /\ \A i \in 1..Len(sales) : UndoneTimes(i) <= 1
    /\ \A p \in DOMAIN products : products[p].stock <= InitialStock(p)

\* C22: a step changes the stock or the sales_count of a product, or the
\* total_spend, visits or segment of a customer, only if it is a sale commit
\* or a cancellation, or a restock that raises the stock and nothing else.
C22_OnlyTheCoreWritesStock ==
    [][/\ \A p \in DOMAIN products \cap DOMAIN products' :
             products'[p] # products[p]
             => \/ ret'.op \in {"process_sale_transaction", "cancel_sale_transaction"}
                \/ /\ ret'.op = "restock_product"
                   /\ products'[p].stock > products[p].stock
                   /\ products'[p].sales_count = products[p].sales_count
       /\ \A m \in DOMAIN customers \cap DOMAIN customers' :
             (\/ customers'[m].total_spend # customers[m].total_spend
              \/ customers'[m].visits # customers[m].visits
              \/ customers'[m].segment # customers[m].segment)
             => ret'.op \in {"process_sale_transaction", "cancel_sale_transaction"}]_vars

\* C23: a sale commit that raises after it has started writing leaves the
\* products, the sales, the customers and the logs as they were before the
\* call.
C23_FailedCommitChangesNothing ==
    [][(ret'.op = "process_sale_transaction" /\ ~ret'.ok)
       => UNCHANGED <<products, sales, customers, logs>>]_vars

\* the commit of the cart [2, 2] raised at the customer update, after the
\* stock UPDATEs and the INSERT, with an earlier sale and a customer in place
C23_Witness ==
    /\ ret.op = "process_sale_transaction" /\ ~ret.ok
    /\ ret.val = <<"raise", "update_customer", <<2, 2>>>>
    /\ Len(sales) = 1
    /\ <<"9">> \in DOMAIN customers
    /\ products[2].stock = 1

\* C24: no step shortens the log or changes an entry that is in it; every
\* step leaves the earlier entries as they were.
C24_LogsAreAppendOnly ==
    [][/\ Len(logs') >= Len(logs)
       /\ \A k \in 1..Len(logs) : logs'[k] = logs[k]]_vars

\* a login and the cancellations of sale 2 and of sale 1: the three entries
\* are in place in the order they were written
C24_Witness ==
    /\ Len(logs) = 3
    /\ logs[1].action = "Login"
    /\ logs[2].action = "Undo Sale" /\ logs[2].details[2] = 2
    /\ logs[3].action = "Undo Sale" /\ logs[3].details[2] = 1

\* The sales a report is to count: not Cancelled, with at least one item
Counted == {i \in 1..Len(sales) :
               sales[i].status # "Cancelled" /\ sales[i].items_data # <<>>}

\* The sum of f[i] over the indexes i of S, for S a subset of 1..n
SumOver(S, f, n) ==
    LET acc[i \in 0..n] ==
            IF i = 0 THEN 0
            ELSE acc[i - 1] + (IF i \in S THEN f[i] ELSE 0)
    IN acc[n]

\* The revenue of all categories of a report together
TotalRevenue(report) ==
    LET cats == <<"Snacks", "Beverages", "Unknown">>
    IN SumOver({k \in 1..3 : cats[k] \in DOMAIN report},
               [k \in 1..3 |-> Get(report, cats[k], 0)], 3)

\* C25: the category report counts no Cancelled sale, gives each item of a
\* counted sale the sale's total divided by its number of items, and so its
\* revenues add up to the totals of the counted sales.
C25_CategoryRevenueIsEqualSplit ==
    LET report == get_category_performance
    IN /\ \A cat \in DOMAIN report :
             report[cat] =
                SumOver(Counted,
                        [i \in 1..Len(sales) |->
                            LET ids == ParseItems(sales[i].items_data)
                            IN IF ids = <<>> THEN 0
                               ELSE ((sales[i].total_amount * ShareUnits)
                                        \div Len(ids))
                                    * Cardinality({k \in 1..Len(ids) :
                                                     CategoryOf(ids[k]) = cat})],
                        Len(sales))
       /\ TotalRevenue(report) =
             ShareUnits * SumOver(Counted,
                                  [i \in 1..Len(sales) |-> sales[i].total_amount],
                                  Len(sales))

\* a Cancelled sale of 20000 and a Completed sale of 100 for the cart [1, 2]:
\* 50 to each of the two categories
C25_Witness ==
    /\ Len(sales) = 2
    /\ sales[1].status = "Cancelled" /\ sales[1].total_amount = 20000
    /\ sales[1].items_data = <<"1", ",", "1">>
    /\ sales[2].status = "Completed" /\ sales[2].total_amount = 100
    /\ sales[2].items_data = <<"1", ",", "2">>
    /\ get_category_performance =
          [cat \in {"Snacks", "Beverages"} |-> 50 * ShareUnits]

\* The first of the five preconditions of a cancellation that the request
\* fails, in the order reason, credential, existence, status, role
FirstFailure(sale_id, r, reason) ==
    IF reason = None \/ Len(Strip(reason)) < 3 THEN "reason"
    ELSE IF users[r[1]].password_hash # sha256(r[3]) THEN "credential"
    ELSE IF sale_id \notin 1..Len(sales) THEN "existence"
    ELSE IF sales[sale_id].status = "Cancelled" THEN "status"
    ELSE IF r[2] # "Admin" /\ sales[sale_id].operator # r[1] THEN "role"
    ELSE "none"

\* C26: a cancellation reports the failure of the first precondition it
\* fails, in the order reason, credential, sale existence, sale status, role
\* permission, and succeeds only when it fails none.
C26_FirstFailingCheckIsReported ==
    [][ret'.op = "cancel_sale_transaction"
       => \A sale_id \in 1..(MaxSales + 1), r \in Requesters, reason \in Reasons :
             cancel_sale_transaction(sale_id, r[1], r[2], reason, r[3])
             => LET failed == FirstFailure(sale_id, r, reason)
                IN /\ ret'.ok <=> failed = "none"
                   /\ failed = "reason" => ret'.val = ValidationFailure
                   /\ failed = "credential" => ret'.val = IdentityFailure
                   /\ failed = "existence"
                        => ret'.val = <<FALSE, "Sale ID not found">>
                   /\ failed = "status"
                        => ret'.val = <<FALSE, "Sale already cancelled">>]_vars

\* The unit references to p in the Completed sales that counted their units
\* when they were created (the sales of process_sale_transaction)
CountedUnits(p) ==
    LET units[i \in 0..Len(sales)] ==
            IF i = 0 THEN 0
            ELSE units[i - 1]
                 + (IF sales[i].status = "Completed" /\ sales[i].timestamp # SeedTime
                    THEN Count(ParseItems(sales[i].items_data), p) ELSE 0)
    IN units[Len(sales)]

\* C27: with seeded sales among the sales, after any commits and
\* cancellations each product's sales_count is the number of unit references
\* to it in the Completed sales that were counted at creation, and is never
\* negative.
C27_SalesCountMatchesCountedSales ==
    \A p \in DOMAIN products :
        /\ products[p].sales_count >= 0
        /\ products[p].sales_count = CountedUnits(p)

\* C29: confirming payment in the payment_process stage, with a non-empty
\* cart and a customer selected, commits: exactly one sale is recorded, its
\* items are the cart's product ids, and the session moves to 'receipt';
\* and no session is at 'receipt' without a recorded sale of its cart.
C29_ConfirmedPaymentCommits ==
    /\ [][ret'.op = "finalize_sale"
          => LET s == ret'.val[1]
             IN /\ session_state[s].checkout_stage = "payment_process"
                /\ session_state[s].cart # <<>>
                /\ ret'.ok
                /\ Len(sales') = Len(sales) + 1
                /\ SubSeq(sales', 1, Len(sales)) = sales
                /\ ParseItems(sales'[Len(sales')].items_data) = session_state[s].cart
                /\ sales'[Len(sales')].status = "Completed"
                /\ session_state'[s].checkout_stage = "receipt"]_vars
    /\ [](\A s \in SessionIds :
            session_state[s].checkout_stage = "receipt"
            => \E i \in 1..Len(sales) :
                  ParseItems(sales[i].items_data) = session_state[s].cart)

\* The totals of the Completed sales linked to the customer with mobile m
CompletedSpend(m) ==
    LET spend[i \in 0..Len(sales)] ==
            IF i = 0 THEN 0
            ELSE spend[i - 1]
                 + (IF sales[i].status = "Completed" /\ sales[i].customer_mobile = m
                    THEN sales[i].total_amount ELSE 0)
    IN spend[Len(sales)]

\* C28: after any customer registrations, sale commits and cancellations,
\* each customer's total_spend is the sum of the totals of the Completed
\* sales linked to the customer, and is never negative.
C28_SpendMatchesCompletedSales ==
    \A m \in DOMAIN customers :
        /\ customers[m].total_spend >= 0
        /\ customers[m].total_spend = CompletedSpend(m)

\* The step is an explicit update of the account u
ExplicitUpdate(u) ==
    \/ \E new_password \in Passwords : update_password(u, new_password)
    \/ \E status \in Statuses : update_user_status(u, status)
    \/ \E password \in Passwords : create_user(u, password, "Operator", "Cashier")

\* C30: only update_password, update_user_status and create_user change an
\* account: across every other step, the start of a session included, each
\* password that verify_password accepts for a user stays accepted and
\* get_user_status of the user stays what it was.
C30_AccountsChangeOnlyByExplicitUpdate ==
    [][\A u \in DOMAIN users :
          ~ExplicitUpdate(u)
          => /\ get_user_status(users', u) = get_user_status(users, u)
             /\ \A p \in Passwords \cup {"pos123"} :
                   verify_password(users, u, p) => verify_password(users', u, p)]_vars

=============================================================================
